---- MODULE Spec2Model ----
(***************************************************************************)
(* News aggregation (getNews, src/lib/actions/finnhub.actions.ts) and the  *)
(* daily batch driver (sendDailyNewsSummary, src/lib/inngest/functions.ts) *)
(* of the Signalist stock tracker.                                         *)
(*                                                                         *)
(* Encoding of JavaScript values:                                          *)
(*   - an optional string field holds "" when it is undefined or empty     *)
(*     (the code only ever tests these fields for truthiness);             *)
(*   - an optional number is a sequence: <<>> undefined, <<n>> the number; *)
(*   - a ticker symbol is a sequence of one-character strings, so that     *)
(*     trim() and toUpperCase() are computed, not assumed;                 *)
(*   - the argument of getNews is Undefined or a sequence of symbols.      *)
(***************************************************************************)
EXTENDS Integers, Sequences, FiniteSets, Bags, TLC

VARIABLES
  scope,          \* the scenario: "direct" getNews called on its own, "driver"
                  \* by the job, "scripted" against fixed provider responses,
                  \* "validator", "overlap" two calls at once, "watchlist"
  apiKey,         \* FINNHUB_API_KEY is set (module constant read at load)
  news,           \* the getNews call in progress (one record, see NewsIdle)
  dpc,            \* sendDailyNewsSummary: position of the handler
  users,          \* sendDailyNewsSummary: users (result of get-all-users)
  idx,            \* sendDailyNewsSummary: index of the user of the iteration
  userNewsData,   \* sendDailyNewsSummary: userNewsData of the iteration
  usersWithNews,  \* sendDailyNewsSummary: usersWithNews
  ret,            \* sendDailyNewsSummary: the returned object, or NoReturn
  directory,      \* history: outcome of the directory query of the run
  lookup,         \* history: outcome of the watchlist query of the iteration
  solo,           \* history: the call of the iteration replayed on its own
  history,        \* history: per recorded entry, its lookup, its call (argument,
                  \* outcome, requests) and the entry the replay gives
  script,         \* scripted: the provider's responses to the fetches of the
                  \* call, in the order of the fetches
  pushes,         \* scripted, history: per settled fetch, the number of
                  \* articles it added to the call's articles
  validation,     \* validator: the article given to validateArticle, and the
                  \* value returned
  runs,           \* overlap: two runs of the job, each at the fetch-news step
                  \* of one user, with its getNews call in progress
  alone,          \* overlap, history: the call of each run replayed on its own
  watchlist,      \* watchlist: the documents of the Watchlist collection
  ops             \* watchlist: the addToWatchlist / removeFromWatchlist calls
                  \* in progress

vars == <<scope, apiKey, news, dpc, users, idx, userNewsData, usersWithNews, ret,
          directory, lookup, solo, history,
          script, pushes, validation, runs, alone, watchlist, ops>>

driverVars == <<dpc, users, idx, userNewsData, usersWithNews, ret,
                directory, lookup, history>>

\* The state of the scenarios other than the one in progress.
scriptVars == <<script, pushes>>

validatorVars == <<validation>>

overlapVars == <<runs, alone>>

watchlistVars == <<watchlist, ops>>

extVars == <<scriptVars, validatorVars, overlapVars, watchlistVars>>

(***************************************************************************)
(* Bounds of the model and constants of the program.                       *)
(***************************************************************************)
MaxFeedLen == 2        \* articles in one company-news response
MaxGeneralLen == 8     \* articles in one general-news response
MaxSymbols == 2        \* symbols in the argument of a direct getNews call
MaxUsers == 2          \* users the directory lookup returns
StoredSymbols == 3     \* symbols in the argument of a call on stored feeds
MaxScriptedLen == 10   \* articles in a scripted general-news response
MaxListLen == 7        \* symbols in a long list of a scripted call
MaxOps == 2            \* watchlist calls in progress at once
MaxRounds == 6         \* for (let round = 0; round < 6; round++)
MaxArticles == 6       \* articles.length >= 6, slice(0, 6)

NoStr == ""

\* The argument of getNews(symbols?: string[]).
Undefined == [given |-> FALSE, list |-> <<>>]

Given(list) == [given |-> TRUE, list |-> list]

(***************************************************************************)
(* JavaScript truthiness and ||.                                           *)
(***************************************************************************)
TruthyStr(s) == s # NoStr

TruthyNum(n) == n # <<>> /\ n[1] # 0

OrStr(a, b) == IF TruthyStr(a) THEN a ELSE b

(***************************************************************************)
(* Raw provider articles (FinnhubArticle).  A1..A7 are valid with pairwise *)
(* distinct dedupe keys (by id, by url, by headline); A8 is valid and its  *)
(* url is the id of A1; B1..B4 are invalid in the four possible ways.      *)
(***************************************************************************)
Raw(id, url, headline, source, datetime) ==
  [id |-> id, url |-> url, headline |-> headline, summary |-> NoStr,
   image |-> NoStr, source |-> source, datetime |-> datetime]

A1 == Raw("k1", "u1", "h1", "src", <<3>>)
A2 == Raw(NoStr, "k2", "h2", "src", <<1>>)
A3 == Raw(NoStr, NoStr, "k3", "src", <<2>>)
A4 == Raw("k4", "u4", NoStr, "src", <<3>>)
A5 == Raw("k5", NoStr, "h5", "src", <<2>>)
A6 == Raw("k6", "u6", "h6", "src", <<1>>)
A7 == Raw("k7", "u7", "h7", "src", <<2>>)
A8 == Raw(NoStr, "k1", "h8", "src", <<1>>)
B1 == Raw("k9", "u9", "h9", NoStr, <<3>>)
B2 == Raw("k10", "u10", "h10", "src", <<0>>)
B3 == Raw("k11", "u11", "h11", "src", <<>>)
B4 == Raw("k12", NoStr, NoStr, "src", <<3>>)

(***************************************************************************)
(* validateArticle, formatArticle and the dedupe key.                      *)
(***************************************************************************)
validateArticle_noSource(article) ==
  /\ TruthyStr(OrStr(article.headline, article.url))
  /\ TruthyNum(article.datetime)

validateArticle(article) ==
  /\ TruthyStr(OrStr(article.headline, article.url))
  /\ TruthyStr(article.source)
  /\ TruthyNum(article.datetime)

\* `${Date.now()}-${Math.random()}`: the n-th generated id of a call.
GeneratedId(n) == "gen-" \o ToString(n)

\* The field raw is not a field of FormattedArticle: it remembers the
\* provider article a returned article was built from.
formatArticle(article, n) ==
  [id |-> OrStr(OrStr(article.id, article.url), GeneratedId(n)),
   headline |-> OrStr(article.headline, "No headline"),
   summary |-> OrStr(article.summary, ""),
   image |-> OrStr(article.image, "null"),
   source |-> OrStr(article.source, "Unknown"),
   url |-> OrStr(article.url, ""),
   datetime |-> IF TruthyNum(article.datetime) THEN article.datetime[1] ELSE 0,
   raw |-> article]

DedupeKey_headlineFirst(article) ==
  OrStr(OrStr(article.headline, article.url), article.id)

\* article.id || article.url || article.headline
DedupeKey(article) == OrStr(OrStr(article.id, article.url), article.headline)

\* Whether formatArticle falls back to a generated id.
NeedsGeneratedId(article) == ~TruthyStr(OrStr(article.id, article.url))

(***************************************************************************)
(* symbols.map((s) => s.trim().toUpperCase()).filter((s) => s.length > 0)  *)
(***************************************************************************)
IsSpace(c) == c = " "

RECURSIVE TrimStart(_)
TrimStart(s) ==
  IF s # <<>> /\ IsSpace(Head(s)) THEN TrimStart(Tail(s)) ELSE s

RECURSIVE TrimEnd(_)
TrimEnd(s) ==
  IF s # <<>> /\ IsSpace(s[Len(s)]) THEN TrimEnd(SubSeq(s, 1, Len(s) - 1)) ELSE s

Trim(s) == TrimEnd(TrimStart(s))

UpperChar(c) ==
  CASE c = "a" -> "A"
    [] c = "m" -> "M"
    [] c = "t" -> "T"
    [] OTHER -> c

ToUpperCase(s) == [i \in 1..Len(s) |-> UpperChar(s[i])]

CleanSymbols_noFilter(symbols) ==
  [i \in 1..Len(symbols) |-> ToUpperCase(Trim(symbols[i]))]

CleanSymbols(symbols) ==
  SelectSeq([i \in 1..Len(symbols) |-> ToUpperCase(Trim(symbols[i]))],
            LAMBDA s : Len(s) > 0)

(***************************************************************************)
(* articles.sort((a, b) => b.datetime - a.datetime): a stable sort, newest *)
(* first; and slice(0, 6).                                                 *)
(***************************************************************************)
\* The comparator: negative when a is to come before b.
Compare_ascending(a, b) == a.datetime - b.datetime

Compare(a, b) == b.datetime - a.datetime

\* a, which followed the elements of sorted in the array, is placed before
\* the first element it is to come before.
InsertByDatetime_front(sorted, a) == <<a>> \o sorted

RECURSIVE InsertByDatetime_beforeEqual(_, _)
InsertByDatetime_beforeEqual(sorted, a) ==
  IF sorted = <<>> THEN <<a>>
  ELSE IF Compare(a, Head(sorted)) <= 0
       THEN <<a>> \o sorted
       ELSE <<Head(sorted)>> \o InsertByDatetime_beforeEqual(Tail(sorted), a)

RECURSIVE InsertByDatetime(_, _)
InsertByDatetime(sorted, a) ==
  IF sorted = <<>> THEN <<a>>
  ELSE IF Compare(a, Head(sorted)) < 0
       THEN <<a>> \o sorted
       ELSE <<Head(sorted)>> \o InsertByDatetime(Tail(sorted), a)

RECURSIVE SortByDatetimeDesc(_)
SortByDatetimeDesc(articles) ==
  IF articles = <<>> THEN <<>>
  ELSE InsertByDatetime(SortByDatetimeDesc(SubSeq(articles, 1, Len(articles) - 1)),
                        articles[Len(articles)])

Slice(articles, n) ==
  SubSeq(articles, 1, IF Len(articles) < n THEN Len(articles) ELSE n)

(***************************************************************************)
(* The state of one getNews call.                                          *)
(*   pc          idle | company (awaiting the fetch of `round`) | general  *)
(*               (awaiting the feed) | returned | thrown                   *)
(*   fetchLog    the requests issued so far, in order                      *)
(*   anyFetchOk  some fetch of the call has succeeded                      *)
(*   dupSkipped  a valid article was skipped because its key was seen      *)
(***************************************************************************)
NewsIdle ==
  [pc |-> "idle", arg |-> Undefined, cleanedSymbols |-> <<>>, round |-> 0,
   articles |-> <<>>, dedupeIds |-> {}, generated |-> 0, fetchLog |-> <<>>,
   anyFetchOk |-> FALSE, dupSkipped |-> FALSE, result |-> <<>>, error |-> NoStr]

FetchError == "Failed to fetch url: status"

Failure == [ok |-> FALSE, data |-> <<>>]

Success(data) == [ok |-> TRUE, data |-> data]

\* catch (error) { throw new Error('Failed to fetch news') }  (outer)
OuterCatch(error) == "Failed to fetch news"

\* catch (error) { throw new Error('Failed to fetch news') }  (general mode)
GeneralCatch(error) == "Failed to fetch news"

Throw(call, error) == [call EXCEPT !.pc = "thrown", !.error = OuterCatch(error)]

Return(call, articles) == [call EXCEPT !.pc = "returned", !.result = articles]

\* The request of the current round: cleanedSymbols[round % length].
RoundSymbol_first(call) == call.cleanedSymbols[1]

RoundSymbol_backwards(call) ==
  call.cleanedSymbols[Len(call.cleanedSymbols) - (call.round % Len(call.cleanedSymbols))]

RoundSymbol_pairs(call) ==
  call.cleanedSymbols[((call.round \div 2) % Len(call.cleanedSymbols)) + 1]

RoundSymbol(call) ==
  call.cleanedSymbols[(call.round % Len(call.cleanedSymbols)) + 1]

IssueCompanyFetch(call) ==
  [call EXCEPT !.pc = "company",
               !.fetchLog = Append(@, [kind |-> "company", symbol |-> RoundSymbol(call)])]

IssueGeneralFetch(call) ==
  [call EXCEPT !.pc = "general",
               !.fetchLog = Append(@, [kind |-> "general", symbol |-> <<>>])]

\* Entry of getNews up to its first await.
IsCompanyMode_nonNull(symbols) == symbols.given

IsCompanyMode(symbols) == symbols.given /\ Len(symbols.list) > 0

\* const articles = [], dedupeIds = new Set(): the state of a call is its own.
FreshCall_shared(previous) == [NewsIdle EXCEPT !.dedupeIds = previous.dedupeIds]

FreshCall(previous) == NewsIdle

GetNewsCall(previous, symbols, key) ==
  LET call == [FreshCall(previous) EXCEPT !.arg = symbols] IN
  IF ~key THEN Throw(call, "FINNHUB_API_KEY is not set")
  ELSE IF IsCompanyMode(symbols)
  THEN LET cleaned == CleanSymbols(symbols.list) IN
       IF Len(cleaned) = 0 THEN Return(call, <<>>)
       ELSE IssueCompanyFetch([call EXCEPT !.cleanedSymbols = cleaned])
  ELSE IssueGeneralFetch(call)

(***************************************************************************)
(* Company mode: one round of the round-robin loop.                        *)
(***************************************************************************)
Acceptable_noDedupe(article, seen) ==
  /\ validateArticle(article)
  /\ TruthyStr(DedupeKey(article))

Acceptable_unvalidated(article, seen) ==
  /\ TruthyStr(DedupeKey(article))
  /\ DedupeKey(article) \notin seen

Acceptable(article, seen) ==
  /\ validateArticle(article)
  /\ TruthyStr(DedupeKey(article))
  /\ DedupeKey(article) \notin seen

\* Index of the first acceptable article of data, 0 when there is none.
FindArticle_firstOnly(data, i, seen) ==
  IF i <= Len(data) /\ Acceptable(data[i], seen) THEN i ELSE 0

FindArticle_last(data, i, seen) ==
  LET found == {j \in i..Len(data) : Acceptable(data[j], seen)}
  IN IF found = {} THEN 0 ELSE CHOOSE j \in found : \A k \in found : k <= j

RECURSIVE FindArticle(_, _, _)
FindArticle(data, i, seen) ==
  IF i > Len(data) THEN 0
  ELSE IF Acceptable(data[i], seen) THEN i
  ELSE FindArticle(data, i + 1, seen)

\* A valid article of data[1..n] was passed over because its key was seen.
SkipsDuplicate(data, n, seen) ==
  \E i \in 1..n : validateArticle(data[i]) /\ DedupeKey(data[i]) \in seen

Push_noMark(call, article) ==
  LET gen == IF NeedsGeneratedId(article) THEN call.generated + 1 ELSE call.generated
  IN [call EXCEPT !.articles = Append(@, formatArticle(article, gen)),
                  !.generated = gen]

Push(call, article) ==
  LET gen == IF NeedsGeneratedId(article) THEN call.generated + 1 ELSE call.generated
  IN [call EXCEPT !.articles = Append(@, formatArticle(article, gen)),
                  !.dedupeIds = @ \cup {DedupeKey(article)},
                  !.generated = gen]

\* After the loop: sort by datetime descending, return the first 6.
CompanyFinish(call) ==
  Return(call, Slice(SortByDatetimeDesc(call.articles), MaxArticles))

NextRound_perSymbol(call) ==
  LET next == [call EXCEPT !.round = @ + 1] IN
  IF next.round < Len(call.cleanedSymbols) THEN IssueCompanyFetch(next)
  ELSE CompanyFinish(next)

\* round++ and the loop test, then the next fetch or the end of the loop.
NextRound(call) ==
  LET next == [call EXCEPT !.round = @ + 1] IN
  IF next.round < MaxRounds THEN IssueCompanyFetch(next) ELSE CompanyFinish(next)

\* catch (error) { console.error(...); continue }
CompanyCatch_rethrow(call) == Throw(call, FetchError)

CompanyCatch(call) == NextRound(call)

\* if (!foundArticle && articles.length >= 6) break
EarlyExit_onAnyMiss(foundArticle, articles) == ~foundArticle

EarlyExit(foundArticle, articles) == ~foundArticle /\ Len(articles) >= MaxArticles

CompanyRound(call, response) ==
  IF ~response.ok THEN CompanyCatch(call)
  ELSE
    LET data == response.data
        i == FindArticle(data, 1, call.dedupeIds)
        foundArticle == i # 0
        scanned == IF foundArticle THEN i - 1 ELSE Len(data)
        seenDup == call.dupSkipped \/ SkipsDuplicate(data, scanned, call.dedupeIds)
        got == [(IF foundArticle THEN Push(call, data[i]) ELSE call)
                  EXCEPT !.anyFetchOk = TRUE, !.dupSkipped = seenDup]
    IN IF EarlyExit(foundArticle, got.articles) THEN CompanyFinish(got)
       ELSE IF Len(got.articles) >= MaxArticles THEN CompanyFinish(got)
       ELSE NextRound(got)

(***************************************************************************)
(* General mode: the scan of the feed.                                     *)
(***************************************************************************)
GeneralStop_never(articles) == FALSE

GeneralStop(articles) == Len(articles) >= MaxArticles

RECURSIVE GeneralScan(_, _, _)
GeneralScan(call, data, i) ==
  IF i > Len(data) THEN call
  ELSE IF Acceptable(data[i], call.dedupeIds)
  THEN LET got == Push(call, data[i]) IN
       IF GeneralStop(got.articles) THEN got ELSE GeneralScan(got, data, i + 1)
  ELSE GeneralScan([call EXCEPT !.dupSkipped =
                      @ \/ (validateArticle(data[i]) /\ DedupeKey(data[i]) \in call.dedupeIds)],
                   data, i + 1)

GeneralFeed(call, response) ==
  IF ~response.ok THEN Throw(call, GeneralCatch(FetchError))
  ELSE LET got == GeneralScan([call EXCEPT !.anyFetchOk = TRUE], response.data, 1)
       IN Return(got, SortByDatetimeDesc(got.articles))

(***************************************************************************)
(* Inputs: symbol lists and provider responses.                            *)
(***************************************************************************)
SeqsUpTo(S, n) == UNION {[1..k -> S] : k \in 0..n}

Injective(s) == \A i, j \in 1..Len(s) : i # j => s[i] # s[j]

Reverse(s) == [i \in 1..Len(s) |-> s[Len(s) + 1 - i]]

\* The subsequence of s at the indices in S.
RECURSIVE SubSeqAt(_, _, _)
SubSeqAt(s, i, S) ==
  IF i > Len(s) THEN <<>>
  ELSE (IF i \in S THEN <<s[i]>> ELSE <<>>) \o SubSeqAt(s, i + 1, S)

RawSymbols == {<<" ">>, <<"a">>, <<" ", "m", " ">>}

DirectArgs == {Undefined} \cup {Given(l) : l \in SeqsUpTo(RawSymbols, MaxSymbols)}

\* What the provider holds about a symbol: A1..A3 and B1 mention "A", A4..A6
\* mention "M", and A1 mentions both.
Mentions(symbol) ==
  CASE symbol = <<"A">> -> {A1, A2, A3, B1}
    [] symbol = <<"M">> -> {A4, A5, A6, A1}
    [] OTHER -> {}

DriverPool == {A1, A4, B1}

CompanyFeeds(symbol) ==
  {f \in SeqsUpTo(IF scope \in {"driver", "overlap"} THEN Mentions(symbol) \cap DriverPool
                                      ELSE Mentions(symbol), MaxFeedLen) :
     Injective(f)}

GeneralMaster == <<A2, B1, A1, A3, B2, A8, A4, B3, A5, A6, B4, A7>>

DriverMaster == <<B1, A1>>

GeneralFeeds ==
  LET master == IF scope \in {"driver", "overlap"} THEN DriverMaster ELSE GeneralMaster
      picks == {SubSeqAt(master, 1, S) : S \in {T \in SUBSET (1..Len(master)) :
                                                  Cardinality(T) <= MaxGeneralLen}}
  IN picks \cup {Reverse(f) : f \in picks}

(***************************************************************************)
(* getNews called on its own, and the fetches of a call completing.  The   *)
(* replay `solo` receives the same responses as the call.                  *)
(***************************************************************************)
Call(symbols) ==
  /\ scope = "direct"
  /\ news.pc = "idle"
  /\ news' = GetNewsCall(news, symbols, apiKey)
  /\ solo' = GetNewsCall(NewsIdle, symbols, apiKey)
  /\ UNCHANGED <<scope, apiKey, driverVars, extVars>>

CompanyFetchReturns ==
  /\ news.pc = "company"
  /\ \E data \in CompanyFeeds(RoundSymbol(news)) :
       /\ news' = CompanyRound(news, Success(data))
       /\ solo' = IF solo.pc = "company" THEN CompanyRound(solo, Success(data)) ELSE solo
  /\ UNCHANGED <<scope, apiKey, driverVars, extVars>>

CompanyFetchFails ==
  /\ news.pc = "company"
  /\ news' = CompanyRound(news, Failure)
  /\ solo' = IF solo.pc = "company" THEN CompanyRound(solo, Failure) ELSE solo
  /\ UNCHANGED <<scope, apiKey, driverVars, extVars>>

GeneralFetchReturns ==
  /\ news.pc = "general"
  /\ \E data \in GeneralFeeds :
       /\ news' = GeneralFeed(news, Success(data))
       /\ solo' = IF solo.pc = "general" THEN GeneralFeed(solo, Success(data)) ELSE solo
  /\ UNCHANGED <<scope, apiKey, driverVars, extVars>>

GeneralFetchFails ==
  /\ news.pc = "general"
  /\ news' = GeneralFeed(news, Failure)
  /\ solo' = IF solo.pc = "general" THEN GeneralFeed(solo, Failure) ELSE solo
  /\ UNCHANGED <<scope, apiKey, driverVars, extVars>>

(***************************************************************************)
(* The collaborators of the driver.  A database query either fails (the    *)
(* connection or the query raises) or yields documents.                    *)
(***************************************************************************)
Resolved(value) == [raised |-> FALSE, value |-> value]

Rejected == [raised |-> TRUE, value |-> <<>>]

DbFailure == [ok |-> FALSE, found |-> FALSE, docs |-> <<>>]

DbDocs(docs) == [ok |-> TRUE, found |-> TRUE, docs |-> docs]

DbNoUser == [ok |-> TRUE, found |-> FALSE, docs |-> <<>>]

UserDoc(k) ==
  [id |-> "id" \o ToString(k), email |-> "mail" \o ToString(k),
   name |-> "name" \o ToString(k)]

NamelessDoc == [id |-> "idx", email |-> "mailx", name |-> NoStr]

\* getAllUsersForNewsEmail: filter (email && name), map to {id, name, email};
\* a failure is caught and [] returned.
getAllUsersForNewsEmail_rethrow(db) ==
  IF ~db.ok THEN Rejected
  ELSE Resolved(SelectSeq(db.docs, LAMBDA u : TruthyStr(u.email) /\ TruthyStr(u.name)))

getAllUsersForNewsEmail(db) ==
  IF ~db.ok THEN Resolved(<<>>)
  ELSE Resolved(SelectSeq(db.docs, LAMBDA u : TruthyStr(u.email) /\ TruthyStr(u.name)))

\* getWatchlistSymbolsByEmail: [] when the user is not found, the symbols of
\* the watchlist items otherwise; a failure is caught and [] returned.
getWatchlistSymbolsByEmail(db) ==
  IF ~db.ok THEN Resolved(<<>>)
  ELSE IF ~db.found THEN Resolved(<<>>)
  ELSE Resolved(db.docs)

DirectoryOutcomes ==
  {DbFailure}
    \cup {DbDocs([k \in 1..n |-> UserDoc(k)]) : n \in 0..MaxUsers}
    \cup {DbDocs(Append([k \in 1..n |-> UserDoc(k)], NamelessDoc)) : n \in 0..MaxUsers}

\* The watchlists stored: the first n symbols of "a", " m ", "a", " m ", ...
StoredSymbol(k) == IF k % 2 = 1 THEN <<"a">> ELSE <<" ", "m", " ">>

WatchlistOutcomes ==
  {DbFailure, DbNoUser}
    \cup {DbDocs([k \in 1..n |-> StoredSymbol(k)]) : n \in 0..MaxSymbols}

(***************************************************************************)
(* sendDailyNewsSummary.                                                   *)
(*   dpc  idle | users (awaiting get-all-users) | watchlist (awaiting      *)
(*        get-watchlist of users[idx]) | news (awaiting fetch-news of      *)
(*        users[idx]) | done (returned) | threw (an exception left the     *)
(*        handler)                                                         *)
(***************************************************************************)
NoReturn == [returned |-> FALSE]

\* if (!users || users.length === 0) return {success: false, message}
NoUsersFound_fallThrough ==
  [returned |-> TRUE, success |-> TRUE,
   message |-> "Daily news summary processed successfully", usersProcessed |-> 0]

NoUsersFound ==
  [returned |-> TRUE, success |-> FALSE,
   message |-> "No users found for news delivery"]

Processed(n) ==
  [returned |-> TRUE, success |-> TRUE,
   message |-> "Daily news summary processed successfully", usersProcessed |-> n]

NoUserNewsData == [userId |-> NoStr, email |-> NoStr, name |-> NoStr, symbols |-> <<>>]

NewUserNewsData(user) ==
  [userId |-> user.id, email |-> user.email, name |-> user.name, symbols |-> <<>>]

\* userNewsData.symbols.length > 0 ? userNewsData.symbols : undefined
NewsArg_asIs(symbols) == Given(symbols)

NewsArg(symbols) == IF Len(symbols) > 0 THEN Given(symbols) ELSE Undefined

\* usersWithNews.push({...userNewsData, articles})
WithArticles(data, articles) ==
  [userId |-> data.userId, email |-> data.email, name |-> data.name,
   symbols |-> data.symbols, articles |-> articles]

\* The try/catch around fetch-news: the entry pushed for the settled call.
RecordNews_dropOnError(entries, data, call) ==
  IF call.pc = "thrown" THEN entries
  ELSE Append(entries, WithArticles(data, call.result))

RecordNews_prepend(entries, data, call) ==
  IF call.pc = "thrown" THEN <<WithArticles(data, <<>>)>> \o entries
  ELSE <<WithArticles(data, call.result)>> \o entries

RecordNews(entries, data, call) ==
  IF call.pc = "thrown" THEN Append(entries, WithArticles(data, <<>>))
  ELSE Append(entries, WithArticles(data, call.result))

\* for (const user of users): whether a user follows users[i].
MoreUsers_skipLast(i, n) == i + 1 < n

MoreUsers(i, n) == i < n

\* The try/catch around get-watchlist.
ResolveSymbols(outcome) == IF outcome.raised THEN <<>> ELSE outcome.value

\* The entry of a user when the iteration runs on its own: fresh
\* userNewsData, the user's own lookup, the replayed call.
Alone(user, db, replay) ==
  RecordNews(<<>>,
             [NewUserNewsData(user) EXCEPT
                !.symbols = ResolveSymbols(getWatchlistSymbolsByEmail(db))],
             replay)

Trigger ==
  /\ scope = "driver"
  /\ dpc = "idle"
  /\ dpc' = "users"
  /\ UNCHANGED <<scope, apiKey, news, solo, users, idx, userNewsData, usersWithNews,
                 ret, directory, lookup, history, extVars>>

GetAllUsersSettles(db) ==
  /\ dpc = "users"
  /\ directory' = db
  /\ LET outcome == getAllUsersForNewsEmail(db) IN
     IF outcome.raised
     THEN /\ dpc' = "threw"
          /\ UNCHANGED <<users, idx, userNewsData, ret>>
     ELSE /\ users' = outcome.value
          /\ IF Len(outcome.value) = 0
             THEN /\ dpc' = "done"
                  /\ ret' = NoUsersFound
                  /\ UNCHANGED <<idx, userNewsData>>
             ELSE /\ dpc' = "watchlist"
                  /\ idx' = 1
                  /\ userNewsData' = NewUserNewsData(outcome.value[1])
                  /\ UNCHANGED ret
  /\ UNCHANGED <<scope, apiKey, news, solo, usersWithNews, lookup, history, extVars>>

GetWatchlistSettles(db) ==
  /\ dpc = "watchlist"
  /\ lookup' = db
  /\ LET symbols == ResolveSymbols(getWatchlistSymbolsByEmail(db)) IN
     /\ userNewsData' = [userNewsData EXCEPT !.symbols = symbols]
     /\ news' = GetNewsCall(news, NewsArg(symbols), apiKey)
     /\ solo' = GetNewsCall(NewsIdle, NewsArg(symbols), apiKey)
  /\ dpc' = "news"
  /\ UNCHANGED <<scope, apiKey, users, idx, usersWithNews, ret, directory, history, extVars>>

FetchNewsSettles ==
  /\ dpc = "news"
  /\ news.pc \in {"returned", "thrown"}
  /\ usersWithNews' = RecordNews(usersWithNews, userNewsData, news)
  /\ history' = Append(history, [lookup |-> lookup, arg |-> news.arg, pc |-> news.pc,
                                 error |-> news.error, fetches |-> news.fetchLog,
                                 alone |-> Alone(users[idx], lookup, solo)])
  /\ IF MoreUsers(idx, Len(users))
     THEN /\ idx' = idx + 1
          /\ userNewsData' = NewUserNewsData(users[idx + 1])
          /\ dpc' = "watchlist"
          /\ UNCHANGED ret
     ELSE /\ dpc' = "done"
          /\ ret' = Processed(Len(usersWithNews'))
          /\ UNCHANGED <<idx, userNewsData>>
  /\ UNCHANGED <<scope, apiKey, news, solo, users, directory, lookup, extVars>>

(***************************************************************************)
(* Specifications.  Spec: getNews called on its own with any argument.     *)
(* DriverSpec: one run of sendDailyNewsSummary.                            *)
(***************************************************************************)
\* The scenarios that are not in progress.
ScriptIdle ==
  /\ script = <<>>
  /\ pushes = <<>>

ValidatorIdle == validation = <<>>

OverlapIdle ==
  /\ runs = <<>>
  /\ alone = <<>>

WatchlistIdle ==
  /\ watchlist = <<>>
  /\ ops = <<>>

ExtIdle == ScriptIdle /\ ValidatorIdle /\ OverlapIdle /\ WatchlistIdle

DriverIdle ==
  /\ dpc = "idle"
  /\ users = <<>>
  /\ idx = 0
  /\ userNewsData = NoUserNewsData
  /\ usersWithNews = <<>>
  /\ ret = NoReturn
  /\ directory = DbNoUser
  /\ lookup = DbNoUser
  /\ history = <<>>

Init ==
  /\ scope = "direct"
  /\ apiKey \in BOOLEAN
  /\ news = NewsIdle
  /\ solo = NewsIdle
  /\ DriverIdle
  /\ ExtIdle

Next ==
  \/ \E symbols \in DirectArgs : Call(symbols)
  \/ CompanyFetchReturns
  \/ CompanyFetchFails
  \/ GeneralFetchReturns
  \/ GeneralFetchFails

Spec == Init /\ [][Next]_vars

DriverInit ==
  /\ scope = "driver"
  /\ apiKey \in BOOLEAN
  /\ news = NewsIdle
  /\ solo = NewsIdle
  /\ DriverIdle
  /\ ExtIdle

DriverNext ==
  \/ Trigger
  \/ \E db \in DirectoryOutcomes : GetAllUsersSettles(db)
  \/ \E db \in WatchlistOutcomes : GetWatchlistSettles(db)
  \/ FetchNewsSettles
  \/ CompanyFetchReturns
  \/ CompanyFetchFails
  \/ GeneralFetchReturns
  \/ GeneralFetchFails

DriverSpec == DriverInit /\ [][DriverNext]_vars

\* Every pending step settles.
FairDriverSpec == DriverSpec /\ WF_vars(DriverNext)

(***************************************************************************)
(* getNews against a provider whose responses are fixed when the call      *)
(* starts.  script maps a symbol (<<>> for the general feed) to the        *)
(* responses to the successive requests for it.                            *)
(***************************************************************************)
Range(s) == {s[i] : i \in 1..Len(s)}

Repeat(x, n) == [i \in 1..n |-> x]

\* The response to the request a call is waiting for: the k-th scripted
\* response for its symbol, k being the number of requests for the symbol.
ScriptedResponse(log) ==
  LET symbol == log[Len(log)].symbol
      k == Cardinality({r \in 1..Len(log) : log[r].symbol = symbol})
  IN IF symbol \in DOMAIN script /\ k <= Len(script[symbol])
     THEN script[symbol][k]
     ELSE Failure

ScriptedRaw == {<<"a">>, <<" ", "m", " ">>, <<"t">>}

\* Stored feeds: every request for a symbol gets the same response.
StoredResponses(symbol) ==
  CASE symbol = <<"A">> ->
         {Failure, Success(<<>>), Success(<<A1>>), Success(<<B1, A1>>), Success(<<A2, A3>>)}
    [] symbol = <<"M">> -> {Success(<<A4>>), Success(<<B2, A4>>)}
    [] symbol = <<"T">> -> {Success(<<A7>>), Success(<<A8>>), Success(<<B3, A7, B4>>)}

StoredScenarios ==
  {[symbols |-> Given(list),
    script |-> [symbol \in Range(CleanSymbols(list)) |->
                  Repeat((<<"A">> :> a @@ <<"M">> :> m @@ <<"T">> :> t)[symbol], MaxRounds)]] :
     list \in UNION {[1..n -> ScriptedRaw] : n \in 1..StoredSymbols},
     a \in StoredResponses(<<"A">>),
     m \in StoredResponses(<<"M">>),
     t \in StoredResponses(<<"T">>)}

\* Fresh articles: the k-th request for a symbol gets the k-th article of the
\* symbol's order, alone, after an invalid article, or after the article of
\* the request before.
FreshOrders(symbol) ==
  CASE symbol = <<"A">> -> {<<A1, A2, A3>>, <<A3, A1, A2>>}
    [] symbol = <<"M">> -> {<<A4, A5, A6>>, <<A6, A4, A5>>}

FreshStyles == {"alone", "afterInvalid", "afterSeen"}

FreshFeed(order, k, style) ==
  CASE style = "alone" -> <<order[k]>>
    [] style = "afterInvalid" -> <<B1, order[k]>>
    [] style = "afterSeen" -> IF k = 1 THEN <<order[k]>> ELSE <<order[k - 1], order[k]>>

FreshResponses(order, style) ==
  [k \in 1..Len(order) |-> Success(FreshFeed(order, k, style))]

\* One response of a script replaced: a failure, an empty feed, or the first
\* article of the symbol again.
Spoilt(responses, k, order) ==
  {[responses EXCEPT ![k] = response] :
     response \in {Failure, Success(<<>>), Success(<<order[1]>>)}}

FreshScenarios ==
  {[symbols |-> Given(list), script |-> <<"A">> :> a @@ <<"M">> :> m] :
     list \in {<<<<"a">>, <<" ", "m", " ">>>>, <<<<" ", "m", " ">>, <<"a">>>>},
     a \in UNION {{FreshResponses(order, style)}
                    \cup UNION {Spoilt(FreshResponses(order, style), k, order) : k \in 1..3} :
                  order \in FreshOrders(<<"A">>), style \in FreshStyles},
     m \in UNION {{FreshResponses(order, style)} :
                  order \in FreshOrders(<<"M">>), style \in FreshStyles}}

\* General feeds: the k-th article is keyed by its id, by its url or by its
\* headline, in turn.
Numbered(k, t) ==
  CASE k % 3 = 1 -> Raw("n" \o ToString(k), "v" \o ToString(k), "w" \o ToString(k), "src", <<t>>)
    [] k % 3 = 2 -> Raw(NoStr, "n" \o ToString(k), NoStr, "src", <<t>>)
    [] OTHER -> Raw(NoStr, NoStr, "n" \o ToString(k), "src", <<t>>)

\* The datetimes of a feed of n articles: n + 1 down to 1 without skip; all
\* equal; or 1 up to n.
Descending(n, skip) ==
  [k \in 1..n |-> IF n + 2 - k > skip THEN n + 2 - k ELSE n + 1 - k]

TimeLines(n) ==
  {Descending(n, skip) : skip \in 1..(n + 1)}
    \cup {[k \in 1..n |-> 5], [k \in 1..n |-> k]}

\* A feed as the provider built it, or with one article changed: without
\* source, or with the key of the first article; or with both, the first
\* article without source and the fourth with its key.
Defects == {"none", "noSource2", "noSource7", "sameKey4", "unsourcedTwin"}

Defective(feed, defect) ==
  CASE defect = "noSource2" /\ Len(feed) >= 2 -> [feed EXCEPT ![2].source = NoStr]
    [] defect = "noSource7" /\ Len(feed) >= 7 -> [feed EXCEPT ![7].source = NoStr]
    [] defect = "sameKey4" /\ Len(feed) >= 4 ->
         [feed EXCEPT ![4] = Raw(NoStr, "n1", "w4", "src", feed[4].datetime)]
    [] defect = "unsourcedTwin" /\ Len(feed) >= 4 ->
         [feed EXCEPT ![1].source = NoStr,
                      ![4] = Raw(NoStr, "n1", "w4", "src", feed[4].datetime)]
    [] OTHER -> feed

GeneralLens == {3} \cup (10..MaxScriptedLen)

GeneralScenarios ==
  UNION {{[symbols |-> symbols,
           script |-> <<>> :> <<Success(Defective([k \in 1..n |-> Numbered(k, times[k])],
                                                  defect))>>] :
            symbols \in {Undefined, Given(<<>>)},
            times \in TimeLines(n),
            defect \in Defects} : n \in GeneralLens}

\* Blank lists: every entry is empty or holds spaces only.  The provider
\* would answer a request for the general feed.
BlankRaw == {<<>>, <<" ">>, <<" ", " ">>}

BlankScenarios ==
  {[symbols |-> Given(list), script |-> <<>> :> <<Success(<<A1, A2>>)>>] :
     list \in UNION {[1..n -> BlankRaw] : n \in 1..StoredSymbols}}

\* Long lists: n symbols, the k-th written " ak" for odd k and "ak" for even
\* k, or the last entry the first symbol again.  Every request for a symbol
\* gets the symbol's feed of two valid articles, the later a symbol stands
\* in the list the newer its articles; the requests for one symbol may fail.
ListedSymbol(k) ==
  IF k % 2 = 1 THEN <<" ", "a", ToString(k)>> ELSE <<"a", ToString(k)>>

ListedFeed(k) ==
  <<Raw("s" \o ToString(k), NoStr, "first", "src", <<2 * k>>),
    Raw(NoStr, "t" \o ToString(k), "second", "src", <<2 * k + 1>>)>>

LongLists ==
  UNION {{[k \in 1..n |-> ListedSymbol(k)],
          [k \in 1..n |-> IF k = n THEN ListedSymbol(1) ELSE ListedSymbol(k)]} :
           n \in 4..MaxListLen}

LongScenarios ==
  UNION {{[symbols |-> Given(list),
           script |-> [symbol \in Range(CleanSymbols(list)) |->
                         LET k == CHOOSE j \in 1..Len(list) :
                                    CleanSymbols(<<ListedSymbol(j)>>) = <<symbol>>
                         IN Repeat(IF k = failing THEN Failure ELSE Success(ListedFeed(k)),
                                   MaxRounds)]] :
            failing \in 0..Len(list)} : list \in LongLists}

ScriptedCall(scenario) ==
  /\ scope = "scripted"
  /\ news.pc = "idle"
  /\ script' = scenario.script
  /\ pushes' = <<>>
  /\ news' = GetNewsCall(news, scenario.symbols, apiKey)
  /\ UNCHANGED <<scope, apiKey, solo, driverVars, validatorVars, overlapVars,
                 watchlistVars>>

ScriptedCompanyFetchSettles ==
  /\ scope = "scripted"
  /\ news.pc = "company"
  /\ news' = CompanyRound(news, ScriptedResponse(news.fetchLog))
  /\ pushes' = Append(pushes, Len(news'.articles) - Len(news.articles))
  /\ UNCHANGED <<scope, apiKey, solo, script, driverVars, validatorVars, overlapVars,
                 watchlistVars>>

ScriptedGeneralFetchSettles ==
  /\ scope = "scripted"
  /\ news.pc = "general"
  /\ news' = GeneralFeed(news, ScriptedResponse(news.fetchLog))
  /\ pushes' = Append(pushes, Len(news'.articles) - Len(news.articles))
  /\ UNCHANGED <<scope, apiKey, solo, script, driverVars, validatorVars, overlapVars,
                 watchlistVars>>

ScriptedScenarios ==
  StoredScenarios \cup FreshScenarios \cup GeneralScenarios \cup BlankScenarios
    \cup LongScenarios

ScriptedInit ==
  /\ scope = "scripted"
  /\ apiKey \in BOOLEAN
  /\ news = NewsIdle
  /\ solo = NewsIdle
  /\ DriverIdle
  /\ ExtIdle

ScriptedNext ==
  \/ \E scenario \in ScriptedScenarios : ScriptedCall(scenario)
  \/ ScriptedCompanyFetchSettles
  \/ ScriptedGeneralFetchSettles

ScriptedSpec == ScriptedInit /\ [][ScriptedNext]_vars

(***************************************************************************)
(* validateArticle applied to one provider article.                        *)
(***************************************************************************)
\* Provider articles: every field absent or present, datetime also 0 and
\* negative.
FinnhubArticles ==
  [id : {NoStr, "i"}, url : {NoStr, "u"}, headline : {NoStr, "h"},
   summary : {NoStr, "s"}, image : {NoStr, "g"}, source : {NoStr, "src"},
   datetime : {<<>>, <<0>>, <<7>>, <<-1>>}]

NotValidated(article) == [article |-> article, done |-> FALSE, result |-> FALSE]

Validate ==
  /\ scope = "validator"
  /\ ~validation.done
  /\ validation' = [validation EXCEPT !.done = TRUE,
                                      !.result = validateArticle(validation.article)]
  /\ UNCHANGED <<scope, apiKey, news, solo, driverVars, scriptVars, overlapVars,
                 watchlistVars>>

ValidatorInit ==
  /\ scope = "validator"
  /\ apiKey = TRUE
  /\ news = NewsIdle
  /\ solo = NewsIdle
  /\ DriverIdle
  /\ ScriptIdle
  /\ OverlapIdle
  /\ WatchlistIdle
  /\ \E article \in FinnhubArticles : validation = NotValidated(article)

ValidatorNext == Validate

ValidatorSpec == ValidatorInit /\ [][ValidatorNext]_vars

(***************************************************************************)
(* Two runs of sendDailyNewsSummary at once, each at the fetch-news step   *)
(* of its user: the two getNews calls overlap, and their fetches complete  *)
(* in any order.                                                           *)
(*   pc  idle | news (awaiting fetch-news) | done (returned)               *)
(***************************************************************************)
Runs == {1, 2}

Peer(i) == 3 - i

RunIdle ==
  [pc |-> "idle", userNewsData |-> NoUserNewsData, news |-> NewsIdle,
   usersWithNews |-> <<>>, ret |-> NoReturn]

OverlapWatchlists == {<<>>, <<<<"a">>>>, <<<<" ", "m", " ">>, <<"a">>>>}

\* const articles = [], dedupeIds = new Set(), dedupeSet = new Set(): what a
\* call reads and writes is its own, whatever the call beside it holds.
OwnState_sharedDedupe(call, peer) ==
  [call EXCEPT !.dedupeIds = @ \cup peer.dedupeIds]

OwnState(call, peer) == call

\* const usersWithNews = []; userNewsData; step.run('fetch-news') starts.
OverlapStart(i, symbols) ==
  /\ scope = "overlap"
  /\ runs[i].pc = "idle"
  /\ runs' = [runs EXCEPT ![i] =
                [pc |-> "news",
                 userNewsData |-> [NewUserNewsData(UserDoc(i)) EXCEPT !.symbols = symbols],
                 news |-> GetNewsCall(runs[i].news, NewsArg(symbols), apiKey),
                 usersWithNews |-> <<>>,
                 ret |-> NoReturn]]
  /\ alone' = [alone EXCEPT ![i] = GetNewsCall(NewsIdle, NewsArg(symbols), apiKey)]
  /\ UNCHANGED <<scope, apiKey, news, solo, driverVars, scriptVars, validatorVars,
                 watchlistVars>>

\* A fetch of the call of run i settles with the given response.
OverlapSettle(i, mode, response) ==
  LET call == OwnState(runs[i].news, runs[Peer(i)].news) IN
  /\ runs' = [runs EXCEPT ![i].news =
                IF mode = "company" THEN CompanyRound(call, response)
                ELSE GeneralFeed(call, response)]
  /\ alone' = [alone EXCEPT ![i] =
                 IF mode = "company" THEN CompanyRound(@, response)
                 ELSE GeneralFeed(@, response)]
  /\ UNCHANGED <<scope, apiKey, news, solo, driverVars, scriptVars, validatorVars,
                 watchlistVars>>

OverlapCompanyFetchReturns(i) ==
  /\ scope = "overlap"
  /\ runs[i].news.pc = "company"
  /\ \E data \in CompanyFeeds(RoundSymbol(runs[i].news)) :
       OverlapSettle(i, "company", Success(data))

OverlapCompanyFetchFails(i) ==
  /\ scope = "overlap"
  /\ runs[i].news.pc = "company"
  /\ OverlapSettle(i, "company", Failure)

OverlapGeneralFetchReturns(i) ==
  /\ scope = "overlap"
  /\ runs[i].news.pc = "general"
  /\ \E data \in GeneralFeeds : OverlapSettle(i, "general", Success(data))

OverlapGeneralFetchFails(i) ==
  /\ scope = "overlap"
  /\ runs[i].news.pc = "general"
  /\ OverlapSettle(i, "general", Failure)

\* fetch-news settles: the entry is pushed and, the user being the only one
\* of the run, the run returns.
OverlapFetchNewsSettles(i) ==
  /\ scope = "overlap"
  /\ runs[i].pc = "news"
  /\ runs[i].news.pc \in {"returned", "thrown"}
  /\ LET entries == RecordNews(runs[i].usersWithNews, runs[i].userNewsData, runs[i].news)
     IN runs' = [runs EXCEPT ![i].pc = "done",
                             ![i].usersWithNews = entries,
                             ![i].ret = Processed(Len(entries))]
  /\ UNCHANGED <<scope, apiKey, news, solo, alone, driverVars, scriptVars, validatorVars,
                 watchlistVars>>

OverlapInit ==
  /\ scope = "overlap"
  /\ apiKey = TRUE
  /\ news = NewsIdle
  /\ solo = NewsIdle
  /\ DriverIdle
  /\ ScriptIdle
  /\ ValidatorIdle
  /\ WatchlistIdle
  /\ runs = [i \in Runs |-> RunIdle]
  /\ alone = [i \in Runs |-> NewsIdle]

OverlapNext ==
  \E i \in Runs :
    \/ \E symbols \in OverlapWatchlists : OverlapStart(i, symbols)
    \/ OverlapCompanyFetchReturns(i)
    \/ OverlapCompanyFetchFails(i)
    \/ OverlapGeneralFetchReturns(i)
    \/ OverlapGeneralFetchFails(i)
    \/ OverlapFetchNewsSettles(i)

OverlapSpec == OverlapInit /\ [][OverlapNext]_vars

(***************************************************************************)
(* addToWatchlist and removeFromWatchlist (src/unnamed/part_002) on the    *)
(* Watchlist collection, a bag of documents.  Any number of calls follow   *)
(* one another in each of MaxOps request handlers, and the handlers        *)
(* interleave at every await.                                              *)
(*   pc  idle | find (awaiting findOne) | save (awaiting save) |           *)
(*       delete (awaiting findOneAndDelete) | done (returned)              *)
(***************************************************************************)
Handlers == 1..MaxOps

WatchlistUsers == {"u1", "u2"}

WatchlistRaw == {<<"a">>, <<"A", " ">>}

CompanyInput == <<" ", "c">>

NoResponse == [success |-> FALSE, message |-> <<>>]

OpIdle ==
  [pc |-> "idle", kind |-> "none", userId |-> NoStr, symbol |-> <<>>,
   result |-> NoResponse]

\* symbol.toUpperCase().trim()
NormalizeSymbol_asGiven(symbol) == symbol

NormalizeSymbol(symbol) == Trim(ToUpperCase(symbol))

\* The documents a query {userId, symbol} matches.
Matching(docs, userId, symbol) ==
  {d \in BagToSet(docs) : d.userId = userId /\ d.symbol = symbol}

\* new Watchlist({userId, symbol, company, addedAt})
NewItem(userId, symbol) ==
  [userId |-> userId, symbol |-> NormalizeSymbol(symbol), company |-> Trim(CompanyInput)]

\* The unique compound index on userId + symbol: a save that would store a
\* second document with the same pair is rejected.
UniqueIndexRejects(docs, doc) == Matching(docs, doc.userId, doc.symbol) # {}

Returned(op, success, message) ==
  [op EXCEPT !.pc = "done", !.result = [success |-> success, message |-> message]]

\* addToWatchlist up to its findOne.
AddToWatchlistCall(h, userId, symbol) ==
  /\ scope = "watchlist"
  /\ ops[h].pc \in {"idle", "done"}
  /\ ops' = [ops EXCEPT ![h] = [OpIdle EXCEPT !.pc = "find", !.kind = "add",
                                               !.userId = userId, !.symbol = symbol]]
  /\ UNCHANGED watchlist
  /\ UNCHANGED <<scope, apiKey, news, solo, driverVars, scriptVars, validatorVars,
                 overlapVars>>

\* findOne settles: the call returns if the item exists, and saves a new item
\* otherwise.
FindOneSettles(h) ==
  /\ scope = "watchlist"
  /\ ops[h].pc = "find"
  /\ LET existingItem ==
           Matching(watchlist, ops[h].userId, NormalizeSymbol(ops[h].symbol)) # {}
     IN ops' = [ops EXCEPT ![h] =
                  IF existingItem
                  THEN Returned(@, FALSE, <<ops[h].symbol, "is already in your watchlist">>)
                  ELSE [@ EXCEPT !.pc = "save"]]
  /\ UNCHANGED watchlist
  /\ UNCHANGED <<scope, apiKey, news, solo, driverVars, scriptVars, validatorVars,
                 overlapVars>>

\* save settles: the index rejects the document, and the catch returns, or the
\* document is stored.
SaveSettles(h) ==
  /\ scope = "watchlist"
  /\ ops[h].pc = "save"
  /\ LET newItem == NewItem(ops[h].userId, ops[h].symbol) IN
     IF UniqueIndexRejects(watchlist, newItem)
     THEN /\ ops' = [ops EXCEPT ![h] = Returned(@, FALSE, <<"Failed to add to watchlist">>)]
          /\ UNCHANGED watchlist
     ELSE /\ ops' = [ops EXCEPT ![h] =
                       Returned(@, TRUE, <<ops[h].symbol, "added to watchlist">>)]
          /\ watchlist' = watchlist (+) SetToBag({newItem})
  /\ UNCHANGED <<scope, apiKey, news, solo, driverVars, scriptVars, validatorVars,
                 overlapVars>>

\* removeFromWatchlist up to its findOneAndDelete.
RemoveFromWatchlistCall(h, userId, symbol) ==
  /\ scope = "watchlist"
  /\ ops[h].pc \in {"idle", "done"}
  /\ ops' = [ops EXCEPT ![h] = [OpIdle EXCEPT !.pc = "delete", !.kind = "remove",
                                               !.userId = userId, !.symbol = symbol]]
  /\ UNCHANGED watchlist
  /\ UNCHANGED <<scope, apiKey, news, solo, driverVars, scriptVars, validatorVars,
                 overlapVars>>

\* findOneAndDelete settles: one matching document is deleted, if there is
\* one.
FindOneAndDeleteSettles(h) ==
  /\ scope = "watchlist"
  /\ ops[h].pc = "delete"
  /\ LET found == Matching(watchlist, ops[h].userId, NormalizeSymbol(ops[h].symbol)) IN
     IF found = {}
     THEN /\ ops' = [ops EXCEPT ![h] =
                       Returned(@, FALSE, <<ops[h].symbol, "not found in watchlist">>)]
          /\ UNCHANGED watchlist
     ELSE /\ ops' = [ops EXCEPT ![h] =
                       Returned(@, TRUE, <<ops[h].symbol, "removed from watchlist">>)]
          /\ \E d \in found : watchlist' = watchlist (-) SetToBag({d})
  /\ UNCHANGED <<scope, apiKey, news, solo, driverVars, scriptVars, validatorVars,
                 overlapVars>>

\* The connection or the query raises: the catch returns the failure.
DatabaseRaises(h) ==
  /\ scope = "watchlist"
  /\ ops[h].pc \in {"find", "save", "delete"}
  /\ ops' = [ops EXCEPT ![h] =
               Returned(@, FALSE,
                        IF ops[h].kind = "add" THEN <<"Failed to add to watchlist">>
                        ELSE <<"Failed to remove from watchlist">>)]
  /\ UNCHANGED watchlist
  /\ UNCHANGED <<scope, apiKey, news, solo, driverVars, scriptVars, validatorVars,
                 overlapVars>>

WatchlistInit ==
  /\ scope = "watchlist"
  /\ apiKey = TRUE
  /\ news = NewsIdle
  /\ solo = NewsIdle
  /\ DriverIdle
  /\ ScriptIdle
  /\ ValidatorIdle
  /\ OverlapIdle
  /\ watchlist = EmptyBag
  /\ ops = [h \in Handlers |-> OpIdle]

WatchlistNext ==
  \E h \in Handlers :
    \/ \E userId \in WatchlistUsers, symbol \in WatchlistRaw :
         AddToWatchlistCall(h, userId, symbol)
    \/ FindOneSettles(h)
    \/ SaveSettles(h)
    \/ \E userId \in WatchlistUsers, symbol \in WatchlistRaw :
         RemoveFromWatchlistCall(h, userId, symbol)
    \/ FindOneAndDeleteSettles(h)
    \/ DatabaseRaises(h)

WatchlistSpec == WatchlistInit /\ [][WatchlistNext]_vars

(***************************************************************************)
(* Properties of getNews (checked under Spec).                             *)
(***************************************************************************)
Settled == news.pc \in {"returned", "thrown"}

GeneralRequest == [kind |-> "general", symbol |-> <<>>]

RequestedGeneral(log) == \E i \in 1..Len(log) : log[i].kind = "general"

RequestedCompany(log) == \E i \in 1..Len(log) : log[i].kind = "company"

\* C1: every getNews call that returns, in company mode or in general mode,
\* returns at most 6 articles.
C1_AtMostSixArticles ==
  news.pc = "returned" => Len(news.result) <= 6

\* C1 witness: a general-mode call returned exactly 6 articles.
C1_ReturnedSix ==
  /\ news.pc = "returned"
  /\ ~news.arg.given
  /\ Len(news.result) = 6

\* C2 as stated: getNews([]) returns [] and makes no request, and the
\* general feed is requested only for an absent list.
C2_EmptyListReturnsEmpty ==
  news.arg = Given(<<>>) =>
    /\ news.fetchLog = <<>>
    /\ Settled => (news.pc = "returned" /\ news.result = <<>>)

\* C2 amended: with the API key set, getNews([]) requests the general feed
\* once, as a call without a list does, and issues no company request; the
\* general feed is requested only for an absent or empty list.
C2_EmptyListIsGeneralMode ==
  /\ (news.pc # "idle" /\ apiKey /\ news.arg \in {Undefined, Given(<<>>)})
       => news.fetchLog = <<GeneralRequest>>
  /\ RequestedGeneral(news.fetchLog) => news.arg \in {Undefined, Given(<<>>)}
  /\ (news.arg.given /\ RequestedCompany(news.fetchLog)) => Len(news.arg.list) > 0

\* C2 witness: getNews([]) returned articles of the general feed.
C2_EmptyListGotGeneralNews ==
  /\ news.arg = Given(<<>>)
  /\ news.pc = "returned"
  /\ news.fetchLog = <<GeneralRequest>>
  /\ Len(news.result) > 0

\* C3: in the sequence one call returns, the dedupe keys (id, else url, else
\* headline) of the provider articles it was built from are pairwise
\* distinct.
C3_DistinctDedupeKeys ==
  news.pc = "returned" =>
    \A i, j \in 1..Len(news.result) :
      i # j => DedupeKey(news.result[i].raw) # DedupeKey(news.result[j].raw)

\* C3 witness: a company-mode call that revisited a symbol, passed over a
\* valid article with a key already seen, and returned several articles.
C3_DuplicateSkipped ==
  /\ news.pc = "returned"
  /\ news.arg.given
  /\ news.dupSkipped
  /\ Len(news.fetchLog) > Len(news.cleanedSymbols)
  /\ Len(news.result) >= 2

\* C4: the returned sequence is non-increasing in datetime.
C4_SortedByDatetime ==
  news.pc = "returned" =>
    \A i, j \in 1..Len(news.result) :
      i < j => news.result[i].datetime >= news.result[j].datetime

\* C4 witness: a company-mode call whose articles were accumulated in
\* another order than the one returned.
C4_SortReordered ==
  /\ news.pc = "returned"
  /\ news.arg.given
  /\ Len(news.result) >= 3
  /\ news.result # news.articles

\* C9 as stated: a call all of whose fetches failed throws 'Failed to fetch
\* news'.
C9_AllFetchesFailedThrows ==
  (Settled /\ news.fetchLog # <<>> /\ ~news.anyFetchOk) =>
    (news.pc = "thrown" /\ news.error = "Failed to fetch news")

\* The call is in company mode: a list was given and cleaning leaves symbols.
CompanyCall ==
  /\ news.pc # "idle"
  /\ apiKey
  /\ news.arg.given
  /\ CleanSymbols(news.arg.list) # <<>>

\* The symbol the fetch of round r is to request.
SymbolOfRound(r) ==
  LET cleaned == CleanSymbols(news.arg.list) IN cleaned[(r % Len(cleaned)) + 1]

\* C19: in company mode the fetches are issued one at a time in increasing
\* round, at most 6 of them, whatever the responses; the fetch of round r
\* requests the company news of the cleaned symbol at index r mod n, n the
\* number of cleaned symbols.
C19_RoundRobinOrder ==
  /\ [](CompanyCall =>
          /\ Len(news.fetchLog) <= 6
          /\ news.pc = "company" => news.round = Len(news.fetchLog) - 1
          /\ \A r \in 0..(Len(news.fetchLog) - 1) :
               news.fetchLog[r + 1] = [kind |-> "company", symbol |-> SymbolOfRound(r)])
  /\ [][news.pc = "company" =>
          \/ news'.fetchLog = news.fetchLog
          \/ /\ Len(news'.fetchLog) = Len(news.fetchLog) + 1
             /\ SubSeq(news'.fetchLog, 1, Len(news.fetchLog)) = news.fetchLog]_vars

\* C19 witness: a call whose symbols clean to [A, M] returned after the
\* requests A, M, A, M, A, M, one of which had failed or found nothing.
C19_AlternatingRequests ==
  /\ news.pc = "returned"
  /\ CleanSymbols(news.arg.list) = <<<<"A">>, <<"M">>>>
  /\ [r \in 1..Len(news.fetchLog) |-> news.fetchLog[r].symbol]
       = <<<<"A">>, <<"M">>, <<"A">>, <<"M">>, <<"A">>, <<"M">>>>
  /\ Len(news.articles) < 6

\* The simplified algorithm: a round fetches, pushes the first acceptable
\* article if there is one, and goes on to the next round; after round 5 the
\* articles are sorted and truncated to 6.
SimplifiedRound(call, response) ==
  IF ~response.ok THEN NextRound(call)
  ELSE LET i == FindArticle(response.data, 1, call.dedupeIds)
           seenDup == call.dupSkipped
                        \/ SkipsDuplicate(response.data,
                                          IF i # 0 THEN i - 1 ELSE Len(response.data),
                                          call.dedupeIds)
       IN NextRound([(IF i # 0 THEN Push(call, response.data[i]) ELSE call)
                       EXCEPT !.anyFetchOk = TRUE, !.dupSkipped = seenDup])

\* What a call has done: its position, the articles it holds with their
\* keys, the requests it has issued, and what it returned or threw.  The loop
\* counter is left out: a break leaves it at 5, the end of the loop at 6.
Outcome(call) ==
  [pc |-> call.pc, articles |-> call.articles, dedupeIds |-> call.dedupeIds,
   fetchLog |-> call.fetchLog, result |-> call.result, error |-> call.error]

\* C20: in company mode, from every state the call can be in and for every
\* response to the pending fetch, the round as coded and the round of the
\* simplified algorithm lead to the same state: the same articles and the
\* same next request, or the same result.  The two start from the same
\* state, so they issue the same fetches and return the same result; a call
\* that returns has issued all 6 fetches and returns its articles sorted and
\* truncated to 6, and no round misses while 6 articles are held.
C20_EarlyExitChangesNothing ==
  /\ news.pc = "company" =>
       /\ Outcome(CompanyRound(news, Failure)) = Outcome(SimplifiedRound(news, Failure))
       /\ \A data \in CompanyFeeds(RoundSymbol(news)) :
            Outcome(CompanyRound(news, Success(data)))
              = Outcome(SimplifiedRound(news, Success(data)))
       /\ Len(news.articles) <= news.round
       /\ Len(news.articles) < MaxArticles
  /\ (CompanyCall /\ news.pc = "returned") =>
       /\ Len(news.fetchLog) = 6
       /\ news.result = Slice(SortByDatetimeDesc(news.articles), 6)

\* C20 witness: a company-mode call returned after 6 fetches with 5
\* articles: one round found nothing, passing over an article already held.
C20_MissedRoundRanToEnd ==
  /\ CompanyCall
  /\ news.pc = "returned"
  /\ Len(news.fetchLog) = 6
  /\ Len(news.articles) = 5
  /\ news.dupSkipped

(***************************************************************************)
(* Properties of sendDailyNewsSummary (checked under DriverSpec and        *)
(* FairDriverSpec).                                                        *)
(***************************************************************************)
Entries == 1..Len(usersWithNews)

\* What a watchlist query yields when it succeeds and finds the user.
Stored(db) == IF db.ok /\ db.found THEN db.docs ELSE <<>>

\* C5: when the general-feed fetch fails, getNews throws 'Failed to fetch
\* news'; the driver records the user with an empty article list and goes
\* on with the run.
C5_GeneralFailureRecordedEmpty ==
  /\ (news.fetchLog = <<GeneralRequest>> /\ news.pc # "general" /\ ~news.anyFetchOk)
       => (news.pc = "thrown" /\ news.error = "Failed to fetch news")
  /\ Len(usersWithNews) = Len(history)
  /\ \A i \in 1..Len(history) :
       history[i].pc = "thrown" =>
         /\ usersWithNews[i].userId = users[i].id
         /\ usersWithNews[i].articles = <<>>
         /\ (dpc # "done" => idx > i)
         /\ (dpc = "done" => ret = Processed(Len(users)))
  /\ dpc # "threw"

\* C5 witness: the general-feed fetch of the first user failed, and the run
\* went on to record a second user and return.
C5_FailedUserThenNext ==
  /\ dpc = "done"
  /\ Len(history) >= 2
  /\ history[1].pc = "thrown"
  /\ history[1].fetches = <<GeneralRequest>>
  /\ usersWithNews[1].articles = <<>>

\* C6: a run over a non-empty user set ends with exactly one entry per input
\* user, in whatever way lookups and selections failed, and reports
\* usersProcessed equal to the number of input users.
C6_OneEntryPerUser ==
  (dpc = "done" /\ Len(users) > 0) =>
    /\ Len(usersWithNews) = Len(users)
    /\ \A i \in 1..Len(users) : usersWithNews[i].userId = users[i].id
    /\ ret.returned
    /\ ret.usersProcessed = Len(users)

\* C6 witness: a finished run over the largest user set in which a watchlist
\* query failed and a news selection threw.
C6_AllUsersDespiteFailures ==
  /\ dpc = "done"
  /\ Len(users) = MaxUsers
  /\ \E i \in 1..Len(history) : history[i].lookup = DbFailure
  /\ \E i \in 1..Len(history) : history[i].pc = "thrown"
  /\ ret.usersProcessed = MaxUsers

\* C7: a failure while one user is processed does not prevent the processing
\* of a later user, and the entry recorded for each user is the entry that
\* user gets when the iteration runs on its own with the same responses.
C7_FailureIsolated ==
  /\ Len(history) = Len(usersWithNews)
  /\ \A i \in Entries : <<usersWithNews[i]>> = history[i].alone
  /\ \A i \in Entries : usersWithNews[i].userId = users[i].id
  /\ (dpc = "done" /\ Len(users) > 0) => Len(usersWithNews) = Len(users)

\* C7 witness: the first user's watchlist query failed and news selection
\* threw, and a later user was recorded with articles.
C7_LaterUserAfterFailure ==
  /\ dpc = "done"
  /\ Len(history) >= 2
  /\ history[1].lookup = DbFailure
  /\ history[1].pc = "thrown"
  /\ usersWithNews[2].articles # <<>>

\* C8: the run always ends by returning a result object: no failure of the
\* directory query, of a watchlist query or of a news selection leaves the
\* handler as an exception; a directory failure ends the run with no user
\* processed.
C8_RunAlwaysReturns ==
  /\ <>(dpc = "done")
  /\ [](dpc # "threw")
  /\ [](dpc = "done" => ret.returned)
  /\ []((dpc \in {"watchlist", "news", "done"} /\ ~directory.ok) =>
          /\ dpc = "done"
          /\ ret = NoUsersFound
          /\ usersWithNews = <<>>
          /\ history = <<>>
          /\ news = NewsIdle)

\* C8 witness: the directory query failed and the run returned.
C8_DirectoryFailureReturned ==
  /\ dpc = "done"
  /\ directory = DbFailure
  /\ ret.returned

\* C10: getNews is called with the resolved symbol list when that list is not
\* empty and without a list exactly when it is empty; a failed watchlist
\* lookup counts as an empty list, so that the entry has symbols [] and the
\* articles of the general-mode call.
C10_ArgumentFromWatchlist ==
  /\ Len(history) = Len(usersWithNews)
  /\ \A i \in Entries :
       LET h == history[i]
           e == usersWithNews[i]
       IN /\ e.symbols = Stored(h.lookup)
          /\ h.arg = (IF Stored(h.lookup) # <<>> THEN Given(Stored(h.lookup)) ELSE Undefined)
          /\ RequestedGeneral(h.fetches) => Stored(h.lookup) = <<>>
          /\ (Stored(h.lookup) = <<>> /\ apiKey) => h.fetches = <<GeneralRequest>>
          /\ e.articles = history[i].alone[1].articles

\* C10 witness: a run that recorded a user whose lookup failed, with symbols
\* [] and general-feed articles, and a user with a stored list, whose call
\* issued company requests.
C10_FailedLookupGotGeneralNews ==
  /\ dpc = "done"
  /\ \E i \in Entries :
       /\ history[i].lookup = DbFailure
       /\ usersWithNews[i].symbols = <<>>
       /\ history[i].fetches = <<GeneralRequest>>
       /\ usersWithNews[i].articles # <<>>
  /\ \E i \in Entries :
       /\ usersWithNews[i].symbols # <<>>
       /\ RequestedCompany(history[i].fetches)

\* The directory lookup has settled and yielded no user.
EmptyUserSet == dpc \notin {"idle", "users"} /\ users = <<>>

PushRound(j) ==
  CHOOSE r \in 1..Len(pushes) :
    /\ pushes[r] > 0
    /\ Cardinality({q \in 1..r : pushes[q] > 0}) = j

\* The symbol of the request that delivered a returned article.
SourceSymbol(article) ==
  LET j == CHOOSE i \in 1..Len(news.articles) : news.articles[i] = article
  IN news.fetchLog[PushRound(j)].symbol

FromSymbol(symbol) ==
  {i \in 1..Len(news.result) : SourceSymbol(news.result[i]) = symbol}

ValidIn(data) == {i \in 1..Len(data) : validateArticle(data[i])}

\* Every request for the symbol gets the same successful response, which
\* holds exactly one valid article.
YieldsOneArticle(symbol) ==
  /\ symbol \in DOMAIN script
  /\ Len(script[symbol]) >= MaxRounds
  /\ \A k \in 1..Len(script[symbol]) : script[symbol][k] = script[symbol][1]
  /\ script[symbol][1].ok
  /\ Cardinality(ValidIn(script[symbol][1].data)) = 1

TheArticle(symbol) ==
  LET data == script[symbol][1].data IN data[CHOOSE i \in ValidIn(data) : TRUE]

\* The premise of C11: three distinct symbols, one valid article per feed,
\* the three keys distinct.
ThreeFeedsOneArticleEach ==
  /\ scope = "scripted"
  /\ apiKey
  /\ news.pc # "idle"
  /\ news.arg.given
  /\ Len(CleanSymbols(news.arg.list)) = 3
  /\ Injective(CleanSymbols(news.arg.list))
  /\ \A symbol \in Range(CleanSymbols(news.arg.list)) :
       /\ YieldsOneArticle(symbol)
       /\ TruthyStr(DedupeKey(TheArticle(symbol)))
  /\ \A s1, s2 \in Range(CleanSymbols(news.arg.list)) :
       s1 # s2 => DedupeKey(TheArticle(s1)) # DedupeKey(TheArticle(s2))

\* C11: for three distinct symbols whose feeds each yield, on every fetch,
\* the same single valid article, the keys of the three articles distinct,
\* the call returns, and its result holds an article delivered by a request
\* for each of the three symbols: the article of that symbol's feed.
C11_ArticleFromEachSymbol ==
  (ThreeFeedsOneArticleEach /\ Settled) =>
    /\ news.pc = "returned"
    /\ \A symbol \in Range(CleanSymbols(news.arg.list)) :
         \E i \in FromSymbol(symbol) : news.result[i].raw = TheArticle(symbol)

\* C11 witness: such a call, given symbols that needed cleaning, returned
\* three articles, one from each symbol, after six fetches.
C11_ThreeSymbolsServed ==
  /\ ThreeFeedsOneArticleEach
  /\ news.pc = "returned"
  /\ news.arg.list = <<<<"t">>, <<" ", "m", " ">>, <<"a">>>>
  /\ Len(news.fetchLog) = 6
  /\ Len(news.result) = 3
  /\ \A symbol \in {<<"A">>, <<"M">>, <<"T">>} : Cardinality(FromSymbol(symbol)) = 1

KeysOf(response) == {DedupeKey(response.data[i]) : i \in 1..Len(response.data)}

\* The keys of the responses scripted for the other symbols, and of the
\* responses to the earlier requests for this one.
KeysBefore(symbol, k) ==
  UNION ({KeysOf(script[symbol][j]) : j \in 1..(k - 1)}
         \cup UNION {{KeysOf(script[other][j]) : j \in 1..Len(script[other])} :
                       other \in DOMAIN script \ {symbol}})

\* The k-th request for the symbol succeeds and returns a valid article whose
\* key none of those responses holds.
ReturnsFreshArticle(symbol, k) ==
  /\ script[symbol][k].ok
  /\ \E i \in ValidIn(script[symbol][k].data) :
       LET key == DedupeKey(script[symbol][k].data[i])
       IN TruthyStr(key) /\ key \notin KeysBefore(symbol, k)

\* The premise of C12: two distinct symbols, and each of the three requests
\* for each symbol returns a fresh valid article.
SixFreshArticles ==
  /\ scope = "scripted"
  /\ apiKey
  /\ news.pc # "idle"
  /\ news.arg.given
  /\ Len(CleanSymbols(news.arg.list)) = 2
  /\ Injective(CleanSymbols(news.arg.list))
  /\ \A symbol \in Range(CleanSymbols(news.arg.list)) :
       /\ symbol \in DOMAIN script
       /\ Len(script[symbol]) = 3
       /\ \A k \in 1..3 : ReturnsFreshArticle(symbol, k)

\* C12: for a list of two symbols, when each of the 6 fetches succeeds and
\* returns a valid article whose key no earlier response held, the call
\* returns exactly 6 articles, 3 delivered by the requests for each symbol.
C12_ThreePerSymbol ==
  (SixFreshArticles /\ Settled) =>
    /\ news.pc = "returned"
    /\ Len(news.fetchLog) = 6
    /\ Len(news.result) = 6
    /\ \A symbol \in Range(CleanSymbols(news.arg.list)) :
         Cardinality(FromSymbol(symbol)) = 3

\* C12 witness: getNews(["a", " m "]) returned 6 articles, 3 from A and 3
\* from M, in another order than the one they were found in.
C12_SixFromTwoSymbols ==
  /\ SixFreshArticles
  /\ news.pc = "returned"
  /\ news.arg.list = <<<<"a">>, <<" ", "m", " ">>>>
  /\ Len(news.result) = 6
  /\ news.result # news.articles
  /\ Cardinality(FromSymbol(<<"A">>)) = 3
  /\ Cardinality(FromSymbol(<<"M">>)) = 3

\* The feed the provider returns to the general-news request.
GeneralData == script[<<>>][1].data

\* The premise of C14: an empty list, and a general feed of 10 valid articles
\* with distinct keys and strictly decreasing datetimes.
TenDescendingArticles ==
  /\ scope = "scripted"
  /\ apiKey
  /\ news.arg = Given(<<>>)
  /\ <<>> \in DOMAIN script
  /\ script[<<>>][1].ok
  /\ Len(GeneralData) = 10
  /\ \A i \in 1..10 : validateArticle(GeneralData[i]) /\ TruthyStr(DedupeKey(GeneralData[i]))
  /\ \A i, j \in 1..10 : i # j => DedupeKey(GeneralData[i]) # DedupeKey(GeneralData[j])
  /\ \A i \in 1..9 : GeneralData[i].datetime[1] > GeneralData[i + 1].datetime[1]

\* C14: getNews([]) against a general feed of 10 valid articles with
\* distinct keys and strictly decreasing datetimes requests that feed once
\* and returns its first 6 articles, formatted, in the order of the feed.
C14_FirstSixInFeedOrder ==
  (TenDescendingArticles /\ news.pc # "idle") =>
    /\ news.fetchLog = <<GeneralRequest>>
    /\ Settled =>
         /\ news.pc = "returned"
         /\ Len(news.result) = 6
         /\ \A i \in 1..6 :
              \E n \in 0..6 : news.result[i] = formatArticle(GeneralData[i], n)

\* C14 witness: such a call returned 6 articles, the first and the sixth of
\* the feed in first and sixth place, the sixth one under a generated id.
C14_TenArticleFeedServed ==
  /\ TenDescendingArticles
  /\ news.pc = "returned"
  /\ Len(news.result) = 6
  /\ news.result[1].raw = GeneralData[1]
  /\ news.result[6].raw = GeneralData[6]
  /\ news.result[6].id = GeneratedId(2)

\* The premise of C16: a list was given, it is not empty, and each of its
\* entries is empty or holds spaces only.
AllEntriesBlank ==
  /\ scope = "scripted"
  /\ news.pc # "idle"
  /\ news.arg.given
  /\ Len(news.arg.list) > 0
  /\ \A i \in 1..Len(news.arg.list) :
       \A k \in 1..Len(news.arg.list[i]) : news.arg.list[i][k] = " "

\* C16: for a non-empty list whose entries are all empty after trimming,
\* getNews makes no request, neither for company news nor for the general
\* feed, and, the API key being set, returns the empty sequence at once.
C16_BlankListReturnsEmpty ==
  AllEntriesBlank =>
    /\ news.fetchLog = <<>>
    /\ Settled
    /\ apiKey => (news.pc = "returned" /\ news.result = <<>>)

\* C16 witness: getNews(["", "  "]) returned [] without a request.
C16_BlankPairReturned ==
  /\ AllEntriesBlank
  /\ news.arg.list = <<<<>>, <<" ", " ">>>>
  /\ news.pc = "returned"
  /\ news.result = <<>>
  /\ news.fetchLog = <<>>

(***************************************************************************)
(* Properties of overlapping calls (checked under OverlapSpec).            *)
(***************************************************************************)
\* The entries a run records when it runs on its own.
RecordedAlone(i) == RecordNews(<<>>, runs[i].userNewsData, alone[i])

HasSymbol(docs, userId, symbol) ==
  \E d \in BagToSet(docs) :
    /\ d.userId = userId
    /\ ToUpperCase(Trim(d.symbol)) = ToUpperCase(Trim(symbol))

NoDuplicateEntries ==
  /\ \A d \in BagToSet(watchlist) : CopiesIn(d, watchlist) = 1
  /\ \A d1, d2 \in BagToSet(watchlist) :
       (d1.userId = d2.userId /\ ToUpperCase(Trim(d1.symbol)) = ToUpperCase(Trim(d2.symbol)))
         => d1 = d2

\* A step in which an addToWatchlist call returns, the user having the symbol
\* when the step is taken, returns success false and leaves the collection
\* as it is.
AddOfExistingRejected ==
  \A h \in Handlers :
    (/\ ops[h].kind = "add"
     /\ ops[h].pc # "done"
     /\ ops'[h].pc = "done"
     /\ HasSymbol(watchlist, ops[h].userId, ops[h].symbol))
      => (~ops'[h].result.success /\ watchlist' = watchlist)

\* C18: whatever addToWatchlist and removeFromWatchlist calls are made, and
\* however their steps interleave, no user has two watchlist entries with
\* the same symbol, symbols compared after upper-casing and trimming; and an
\* addToWatchlist for a symbol the user has returns success false and leaves
\* the watchlist unchanged.
C18_NoDuplicateSymbols ==
  /\ []NoDuplicateEntries
  /\ [][AddOfExistingRejected]_vars

\* C18 witness: two handlers added the same symbol for the same user, given
\* as "a" and as "A "; one call stored the entry A, the other returned
\* success false, and the user has one entry.
C18_SecondAddRejected ==
  /\ scope = "watchlist"
  /\ ops[1].pc = "done" /\ ops[1].kind = "add"
  /\ ops[1].userId = "u1" /\ ops[1].symbol = <<"a">>
  /\ ops[1].result.success
  /\ ops[2].pc = "done" /\ ops[2].kind = "add"
  /\ ops[2].userId = "u1" /\ ops[2].symbol = <<"A", " ">>
  /\ ~ops[2].result.success
  /\ watchlist = SetToBag({[userId |-> "u1", symbol |-> <<"A">>, company |-> <<"c">>]})

(***************************************************************************)
(* Properties of validateArticle (checked under ValidatorSpec).            *)
(***************************************************************************)
\* A string field is present when it holds a non-empty string.
PresentStr(field) == field # ""

\* C13: validateArticle returns true if and only if headline or url is
\* present, source is present, and datetime is present and not 0, an empty
\* string counting as absent; so an article without source is rejected
\* whatever its other fields hold, and so is an article with datetime 0.
C13_ValidIffRequiredFields ==
  validation.done =>
    LET a == validation.article IN
    /\ validation.result <=>
         /\ PresentStr(a.headline) \/ PresentStr(a.url)
         /\ PresentStr(a.source)
         /\ a.datetime # <<>>
         /\ a.datetime # <<0>>
    /\ ~PresentStr(a.source) => ~validation.result
    /\ a.datetime = <<0>> => ~validation.result

\* C13 witness: an article complete but for its source was rejected.
C13_RejectedWithoutSource ==
  /\ validation.done
  /\ ~validation.result
  /\ validation.article =
       [id |-> "i", url |-> "u", headline |-> "h", summary |-> "s", image |-> "g",
        source |-> "", datetime |-> <<7>>]

(***************************************************************************)
(* Properties of the rounds of a company-mode call against scripted        *)
(* responses (checked under ScriptedSpec).                                 *)
(***************************************************************************)
\* A call in company mode whose fetches are answered from the script.
ScriptedCompanyCall ==
  /\ scope = "scripted"
  /\ CompanyCall

\* The response to the r-th request of the call (r = 1 for round 0).
ResponseOf(r) == ScriptedResponse(SubSeq(news.fetchLog, 1, r))

\* The number of articles the call held when its r-th request was issued.
RECURSIVE HeldBefore(_)
HeldBefore(r) == IF r <= 1 THEN 0 ELSE HeldBefore(r - 1) + pushes[r - 1]

\* The dedupe keys of those articles.
SeenBefore(r) == {DedupeKey(news.articles[j].raw) : j \in 1..HeldBefore(r)}

\* The positions, in the feed of the r-th response, of the articles that are
\* valid and whose key was not seen earlier in the call.
Candidates(r) ==
  IF ~ResponseOf(r).ok THEN {}
  ELSE {i \in 1..Len(ResponseOf(r).data) :
          /\ validateArticle(ResponseOf(r).data[i])
          /\ DedupeKey(ResponseOf(r).data[i]) \notin SeenBefore(r)}

First(S) == CHOOSE i \in S : \A j \in S : i <= j

\* Some valid article with a seen key stands before the article the round
\* chose, or anywhere in the feed when the round chose none.
PassedOverSeen(r) ==
  /\ ResponseOf(r).ok
  /\ \E i \in 1..Len(ResponseOf(r).data) :
       /\ Candidates(r) # {} => i < First(Candidates(r))
       /\ validateArticle(ResponseOf(r).data[i])
       /\ DedupeKey(ResponseOf(r).data[i]) \in SeenBefore(r)

\* C21: in company mode, each settled round added at most one article; it
\* added one exactly when its feed held a valid article with a key not seen
\* earlier in the call, and then the first such article in provider order;
\* no key but those of the articles added is marked seen, and no article
\* standing after the chosen one was examined.
C21_FirstFreshArticlePerRound ==
  ScriptedCompanyCall =>
    /\ \A r \in 1..Len(pushes) :
         /\ pushes[r] \in {0, 1}
         /\ pushes[r] = 1 <=> Candidates(r) # {}
         /\ Candidates(r) # {} =>
              news.articles[HeldBefore(r) + 1].raw
                = ResponseOf(r).data[First(Candidates(r))]
    /\ Len(news.articles) = HeldBefore(Len(pushes) + 1)
    /\ news.dedupeIds = {DedupeKey(news.articles[j].raw) : j \in 1..Len(news.articles)}
    /\ news.dupSkipped <=> \E r \in 1..Len(pushes) : PassedOverSeen(r)

\* C21 witness: a call returned after a round that chose the first of two
\* fresh articles of its feed, and a later round that passed over that
\* article, then seen, and chose the one after it.
C21_SecondArticleOnRevisit ==
  /\ ScriptedCompanyCall
  /\ news.pc = "returned"
  /\ \E r1, r2 \in 1..Len(pushes) :
       /\ r1 < r2
       /\ ResponseOf(r1) = ResponseOf(r2)
       /\ Candidates(r1) = {1, 2}
       /\ Candidates(r2) = {2}
       /\ news.articles[HeldBefore(r1) + 1].raw = ResponseOf(r1).data[1]
       /\ news.articles[HeldBefore(r2) + 1].raw = ResponseOf(r2).data[2]

\* The r-th fetch of the call failed.
FailedRound(r) == ~ResponseOf(r).ok

\* Every article the call holds is in its result.
AllArticlesReturned ==
  /\ Len(news.result) = Len(news.articles)
  /\ \A j \in 1..Len(news.articles) :
       \E i \in 1..Len(news.result) : news.result[i] = news.articles[j]

\* The fetch the call is waiting for fails: the call keeps its articles and
\* its keys, and goes on to the next round, or returns after the last one.
FailureKeepsGoing ==
  (ScriptedCompanyCall /\ news.pc = "company" /\ ~ScriptedResponse(news.fetchLog).ok) =>
    /\ news'.articles = news.articles
    /\ news'.dedupeIds = news.dedupeIds
    /\ IF Len(news.fetchLog) < MaxRounds
       THEN /\ news'.pc = "company"
            /\ Len(news'.fetchLog) = Len(news.fetchLog) + 1
       ELSE /\ news'.pc = "returned"
            /\ news'.fetchLog = news.fetchLog

\* Whatever the response, the articles held before a fetch settles are held,
\* in the same places, after it.
ArticlesKept ==
  (ScriptedCompanyCall /\ news.pc = "company") =>
    SubSeq(news'.articles, 1, Len(news.articles)) = news.articles

\* C22: in company mode a failed fetch does not end the call: the articles
\* of the earlier rounds are kept, the next round is attempted, and so every
\* round up to the sixth; the call never throws, and returns all the
\* articles it accumulated, those of the rounds after a failure included.
C22_FailedRoundDoesNotAbort ==
  /\ [][FailureKeepsGoing /\ ArticlesKept]_vars
  /\ [](ScriptedCompanyCall =>
          /\ news.pc # "thrown"
          /\ \A r \in 1..Len(pushes) :
               FailedRound(r) => (pushes[r] = 0 /\ (r < MaxRounds => Len(news.fetchLog) > r))
          /\ (news.pc = "returned" /\ \E r \in 1..Len(pushes) : FailedRound(r)) =>
               /\ Len(news.fetchLog) = MaxRounds
               /\ AllArticlesReturned)

\* C22 witness: a call returned five articles after six fetches, the third of
\* which failed: two articles from the rounds before it, three from the
\* rounds after it.
C22_FailureInThirdRound ==
  /\ ScriptedCompanyCall
  /\ news.pc = "returned"
  /\ Len(pushes) = 6
  /\ FailedRound(3)
  /\ pushes = <<1, 1, 0, 1, 1, 1>>
  /\ Len(news.result) = 5

\* ceil(6 / n)
CeilOfSix(n) == (MaxArticles + n - 1) \div n

\* The premise of C23: a company-mode call on n >= 2 symbols, pairwise
\* distinct once cleaned, has returned.
DistinctSymbolsReturned ==
  /\ ScriptedCompanyCall
  /\ news.pc = "returned"
  /\ Len(CleanSymbols(news.arg.list)) >= 2
  /\ Injective(CleanSymbols(news.arg.list))

\* C23: when a call is made on n >= 2 symbols that are pairwise distinct
\* once cleaned, at most ceil(6/n) of the articles it returns were delivered
\* by the requests for any one symbol, whatever the responses.
C23_NoSymbolDominates ==
  DistinctSymbolsReturned =>
    \A symbol \in Range(CleanSymbols(news.arg.list)) :
      Cardinality(FromSymbol(symbol)) <= CeilOfSix(Len(CleanSymbols(news.arg.list)))

\* C23 witness: a call on four symbols returned six articles, two from each
\* of the first two symbols and one from each of the others.
C23_FourSymbolsTwoAtMost ==
  /\ DistinctSymbolsReturned
  /\ Len(CleanSymbols(news.arg.list)) = 4
  /\ Len(news.result) = 6
  /\ \A p \in 1..4 :
       Cardinality(FromSymbol(CleanSymbols(news.arg.list)[p])) = IF p <= 2 THEN 2 ELSE 1

\* C24 as stated: the result of a company-mode call holds at most one
\* article delivered by the requests for any one symbol of the list.
C24_OneArticlePerSymbol ==
  (ScriptedCompanyCall /\ news.pc = "returned") =>
    \A symbol \in Range(CleanSymbols(news.arg.list)) :
      Cardinality(FromSymbol(symbol)) <= 1

(***************************************************************************)
(* Properties of a general-mode call against a scripted feed (checked      *)
(* under ScriptedSpec).                                                    *)
(***************************************************************************)
\* A call in general mode whose request was answered with a feed.
GeneralFeedReturned ==
  /\ scope = "scripted"
  /\ apiKey
  /\ news.pc = "returned"
  /\ news.fetchLog = <<GeneralRequest>>
  /\ script[<<>>][1].ok

\* The positions of the feed that hold a valid article whose key no valid
\* article before it has.
Eligible(data) ==
  {i \in 1..Len(data) :
     /\ validateArticle(data[i])
     /\ \A j \in 1..(i - 1) :
          validateArticle(data[j]) => DedupeKey(data[j]) # DedupeKey(data[i])}

\* The first m elements of a set of positions.
FirstOf(S, m) == {i \in S : Cardinality({j \in S : j < i}) < m}

Min(a, b) == IF a < b THEN a ELSE b

\* C25: a general-mode call whose fetch succeeded returns min(6, k)
\* articles, k the number of feed articles that are valid with a key no
\* earlier valid article has: the first min(6, k) of those in provider order,
\* each once; no key beyond theirs is marked seen, and a feed article after
\* the sixth accepted one is not returned, however new it is.
C25_FirstSixEligible ==
  GeneralFeedReturned =>
    LET taken == FirstOf(Eligible(GeneralData), MaxArticles) IN
    /\ Len(news.result) = Min(MaxArticles, Cardinality(Eligible(GeneralData)))
    /\ {news.result[i].raw : i \in 1..Len(news.result)} = {GeneralData[i] : i \in taken}
    /\ \A i \in 1..Len(news.articles) :
         news.articles[i].raw = GeneralData[CHOOSE p \in taken :
                                              Cardinality({q \in taken : q < p}) = i - 1]
    /\ news.dedupeIds = {DedupeKey(GeneralData[i]) : i \in taken}

\* C25 witness: of a feed of 10 articles, oldest first, whose first article
\* has no source and whose fourth has the key of the first, the call
\* returned articles 2 to 7, and not the three newer ones after them.
C25_NewerArticlesLeftOut ==
  /\ GeneralFeedReturned
  /\ Len(GeneralData) = 10
  /\ ~validateArticle(GeneralData[1])
  /\ DedupeKey(GeneralData[4]) = DedupeKey(GeneralData[1])
  /\ Eligible(GeneralData) = 2..10
  /\ Len(news.result) = 6
  /\ \A i \in 1..6 : news.result[i].raw = GeneralData[8 - i]
  /\ \A p \in 8..10 : GeneralData[p].datetime[1] > news.result[1].datetime

(***************************************************************************)
(* Properties of the order of the result (checked under Spec).             *)
(***************************************************************************)
\* The place of a returned article among the articles the call accumulated.
Accumulated(article) == CHOOSE p \in 1..Len(news.articles) : news.articles[p] = article

\* C26: in the result of a call, in company mode or in general mode, two
\* articles with the same datetime stand in the order in which the call
\* accumulated them.
C26_TiesInAccumulationOrder ==
  news.pc = "returned" =>
    \A i, j \in 1..Len(news.result) :
      (i < j /\ news.result[i].datetime = news.result[j].datetime) =>
        Accumulated(news.result[i]) < Accumulated(news.result[j])

\* C26 witness: a call accumulated A3, then an older article, then A5, as
\* new as A3; it returned A3 first and A5 next to it, before the older one.
C26_TieKeptAcrossSort ==
  /\ news.pc = "returned"
  /\ Len(news.articles) >= 3
  /\ news.articles[1].raw = A3
  /\ news.articles[2].datetime < news.articles[1].datetime
  /\ news.articles[3].raw = A5
  /\ news.result[1].raw = A3
  /\ news.result[2].raw = A5

(***************************************************************************)
(* Properties of the size of a company-mode result (checked under          *)
(* ScriptedSpec).                                                          *)
(***************************************************************************)
\* The rounds whose fetch succeeded with a feed that held a valid article
\* with a key not seen earlier in the call.
ProductiveRounds == {r \in 1..Len(pushes) : Candidates(r) # {}}

\* The round that added a returned article.
RoundOf(article) == PushRound(Accumulated(article))

\* C27: a company-mode call returns after its six rounds as many articles
\* as it had rounds whose fetch succeeded with a feed holding a valid
\* article with an unseen key, each returned article being one of the feed
\* of such a round; it requests no general news, so a result may hold
\* fewer than 6 articles, or none.
C27_OneArticlePerProductiveRound ==
  (ScriptedCompanyCall /\ news.pc = "returned") =>
    /\ Len(pushes) = MaxRounds
    /\ Len(news.result) = Cardinality(ProductiveRounds)
    /\ ~RequestedGeneral(news.fetchLog)
    /\ \A i \in 1..Len(news.result) :
         /\ RoundOf(news.result[i]) \in ProductiveRounds
         /\ news.result[i].raw \in Range(ResponseOf(RoundOf(news.result[i])).data)
    /\ \A i, j \in 1..Len(news.result) :
         i # j => RoundOf(news.result[i]) # RoundOf(news.result[j])

\* C27 witness: a call on two symbols, each with one article in its feed,
\* returned two articles after six successful fetches: the four rounds that
\* found nothing new were not made up for.
C27_TwoArticlesFromSixRounds ==
  /\ ScriptedCompanyCall
  /\ news.pc = "returned"
  /\ Len(CleanSymbols(news.arg.list)) = 2
  /\ \A r \in 1..MaxRounds : ResponseOf(r).ok /\ Len(ResponseOf(r).data) = 1
  /\ pushes = <<1, 1, 0, 0, 0, 0>>
  /\ Len(news.result) = 2

(***************************************************************************)
(* Properties of a call on more than 6 symbols (checked under              *)
(* ScriptedSpec).                                                          *)
(***************************************************************************)
\* A company-mode call whose cleaned list has more than 6 entries.
MoreThanSixSymbols ==
  /\ ScriptedCompanyCall
  /\ Len(CleanSymbols(news.arg.list)) > MaxRounds

\* The symbols that stand at position 7 or later and nowhere before.
BeyondSixth ==
  LET cleaned == CleanSymbols(news.arg.list) IN
  {cleaned[p] : p \in (MaxRounds + 1)..Len(cleaned)}
    \ {cleaned[p] : p \in 1..MaxRounds}

\* The articles the provider holds for a symbol.
ArticlesFor(symbol) ==
  UNION {Range(script[symbol][k].data) : k \in 1..Len(script[symbol])}

\* C28: when the cleaned list has more than 6 entries, the requests of the
\* call are those for its first 6 entries, in that order and one each; a
\* symbol that stands only at position 7 or later is never requested, and
\* no article of its feed is accumulated or returned.
C28_OnlyFirstSixFetched ==
  MoreThanSixSymbols =>
    /\ Len(news.fetchLog) <= MaxRounds
    /\ \A r \in 1..Len(news.fetchLog) :
         news.fetchLog[r] = [kind |-> "company", symbol |-> CleanSymbols(news.arg.list)[r]]
    /\ \A symbol \in BeyondSixth :
         /\ \A r \in 1..Len(news.fetchLog) : news.fetchLog[r].symbol # symbol
         /\ \A i \in 1..Len(news.articles) : news.articles[i].raw \notin ArticlesFor(symbol)
         /\ \A i \in 1..Len(news.result) : news.result[i].raw \notin ArticlesFor(symbol)

\* C28 witness: a call on 7 distinct symbols, the requests for the third of
\* which failed, returned 5 articles after 6 requests; the seventh symbol,
\* whose feed holds the newest articles, was left out.
C28_SeventhSymbolLeftOut ==
  /\ MoreThanSixSymbols
  /\ news.pc = "returned"
  /\ Cardinality(BeyondSixth) = 1
  /\ Len(news.fetchLog) = 6
  /\ FailedRound(3)
  /\ Len(news.result) = 5
  /\ \A symbol \in BeyondSixth :
       /\ \A a \in ArticlesFor(symbol) : a.datetime[1] > news.result[1].datetime
       /\ ArticlesFor(symbol) # {}

(***************************************************************************)
(* Properties of the returned articles (checked under Spec).               *)
(***************************************************************************)
\* C29: every article a call returns, in company mode or in general mode,
\* has an id that is not empty, a datetime that is not 0 and the source the
\* provider gave, never the default 'Unknown'; and no two articles of a
\* result have the same id, the generated ids being distinct from one
\* another and from the provider's.
C29_ReturnedArticlesWellFormed ==
  news.pc = "returned" =>
    /\ \A i \in 1..Len(news.result) :
         /\ news.result[i].id # ""
         /\ news.result[i].datetime # 0
         /\ news.result[i].source # "Unknown"
         /\ news.result[i].source # ""
         /\ news.result[i].source = news.result[i].raw.source
    /\ \A i, j \in 1..Len(news.result) :
         i # j => news.result[i].id # news.result[j].id

\* C29 witness: a general-mode call returned A1 under its own id and A3,
\* which has neither id nor url, under a generated id, after passing over
\* A8, whose url is the id of A1.
C29_GeneratedIdBesideProviderId ==
  /\ news.pc = "returned"
  /\ RequestedGeneral(news.fetchLog)
  /\ news.dupSkipped
  /\ \E i, j \in 1..Len(news.result) :
       /\ news.result[i].raw = A1
       /\ news.result[i].id = "k1"
       /\ news.result[j].raw = A3
       /\ news.result[j].id = GeneratedId(1)
  /\ \A i \in 1..Len(news.result) : news.result[i].raw # A8

(***************************************************************************)
(* Properties of the order of the steps of a run (checked under            *)
(* DriverSpec).                                                            *)
(***************************************************************************)
\* A fetch of the getNews call is pending.
FetchPending == news.pc \in {"company", "general"}

\* The entries recorded are those of the first users, in the order of users.
EntriesInInputOrder ==
  /\ Len(usersWithNews) <= Len(users)
  /\ \A i \in 1..Len(usersWithNews) :
       /\ usersWithNews[i].userId = users[i].id
       /\ usersWithNews[i].email = users[i].email

\* One step is awaited at a time: a fetch is pending only inside the
\* fetch-news step, and while the lookup or the selection of users[idx] is
\* awaited the users before it, and no other, are recorded.
OneStepAtATime ==
  /\ FetchPending => dpc = "news"
  /\ dpc \in {"watchlist", "news"} =>
       /\ idx \in 1..Len(users)
       /\ Len(usersWithNews) = idx - 1
       /\ userNewsData.userId = users[idx].id
  /\ dpc = "users" => usersWithNews = <<>>

\* A getNews call starts in the step in which the watchlist lookup of the
\* same user settles, on the symbols that lookup resolved to.
SelectionFollowsLookup ==
  (~FetchPending /\ news' # news) =>
    /\ dpc = "watchlist"
    /\ dpc' = "news"
    /\ idx' = idx
    /\ userNewsData'.symbols = ResolveSymbols(getWatchlistSymbolsByEmail(lookup'))
    /\ news'.arg = NewsArg(userNewsData'.symbols)
    /\ news'.fetchLog = <<>> \/ Len(news'.fetchLog) = 1

\* A watchlist lookup starts after the directory lookup, for the first user,
\* or in the step that records the entry of the user before.
LookupFollowsRecord ==
  (dpc # "watchlist" /\ dpc' = "watchlist") =>
    \/ /\ dpc = "users"
       /\ idx' = 1
       /\ usersWithNews' = <<>>
    \/ /\ dpc = "news"
       /\ ~FetchPending
       /\ idx' = idx + 1
       /\ Len(usersWithNews') = idx
       /\ usersWithNews'[idx].userId = users[idx].id

\* An entry is recorded when the selection of its user has settled, after
\* the entries recorded before.
RecordFollowsSelection ==
  usersWithNews' # usersWithNews =>
    /\ dpc = "news"
    /\ news.pc \in {"returned", "thrown"}
    /\ Len(usersWithNews') = Len(usersWithNews) + 1
    /\ SubSeq(usersWithNews', 1, Len(usersWithNews)) = usersWithNews
    /\ usersWithNews'[Len(usersWithNews')].userId = users[idx].id

====
